---------------------------- MODULE Spec2Model ----------------------------
(***************************************************************************)
(* BPO LeadGen Pro (src/app.py): one Streamlit script run after the        *)
(* "Generate Leads" button is pressed.  Python strings are sequences of    *)
(* one-character strings, so that splitting, stripping, substring tests    *)
(* and the phone regular expression are computed as the code computes      *)
(* them.  The en dash of the region keys is written "-" and the emoji of   *)
(* the mode labels are left out.                                           *)
(***************************************************************************)
EXTENDS Integers, Sequences, FiniteSets, TLC

VARIABLES mode, API_KEY, CX_ID, region_key, service, count,
          pc, apiData, context, llm, aiLeads, leads, passes, calls, ui, df

vars == <<mode, API_KEY, CX_ID, region_key, service, count,
          pc, apiData, context, llm, aiLeads, leads, passes, calls, ui, df>>

-----------------------------------------------------------------------------
(* Python str primitives *)

None == <<"<None>">>

Digits == {"0","1","2","3","4","5","6","7","8","9"}

Whitespace == {" ", "\n", "\t", "\r"}

UpperCase == <<"A","B","C","D","E","F","G","H","I","J","K","L","M","N","O","P","Q","R","S","T","U","V","W","X","Y","Z">>

LowerCase == <<"a","b","c","d","e","f","g","h","i","j","k","l","m","n","o","p","q","r","s","t","u","v","w","x","y","z">>

MinOf(S) == CHOOSE x \in S : \A y \in S : x <= y

MaxOf(S) == CHOOSE x \in S : \A y \in S : y <= x

lowerChar(c) ==
    IF \E i \in 1..Len(UpperCase) : UpperCase[i] = c
    THEN LowerCase[CHOOSE i \in 1..Len(UpperCase) : UpperCase[i] = c]
    ELSE c

upperChar(c) ==
    IF \E i \in 1..Len(LowerCase) : LowerCase[i] = c
    THEN UpperCase[CHOOSE i \in 1..Len(LowerCase) : LowerCase[i] = c]
    ELSE c

lower(s) == [i \in 1..Len(s) |-> lowerChar(s[i])]

upper(s) == [i \in 1..Len(s) |-> upperChar(s[i])]

\* sub in s
Contains(s, sub) ==
    \E i \in 0..(Len(s) - Len(sub)) : SubSeq(s, i + 1, i + Len(sub)) = sub

startswith(s, prefix) ==
    Len(s) >= Len(prefix) /\ SubSeq(s, 1, Len(prefix)) = prefix

strip(s) ==
    LET keep == {i \in 1..Len(s) : s[i] \notin Whitespace}
    IN  IF keep = {} THEN <<>> ELSE SubSeq(s, MinOf(keep), MaxOf(keep))

RECURSIVE splitFrom(_, _, _)
splitFrom(s, sep, start) ==
    LET cuts == {i \in start..Len(s) : s[i] = sep}
    IN  IF cuts = {} THEN <<SubSeq(s, start, Len(s))>>
        ELSE <<SubSeq(s, start, MinOf(cuts) - 1)>> \o splitFrom(s, sep, MinOf(cuts) + 1)

\* s.split(sep) for a one-character separator
split(s, sep) == splitFrom(s, sep, 1)

\* s.split()[0]: the first whitespace-delimited word
firstWord(s) ==
    LET t    == strip(s)
        stop == {i \in 1..Len(t) : t[i] \in Whitespace}
    IN  IF stop = {} THEN t ELSE SubSeq(t, 1, MinOf(stop) - 1)

RECURSIVE replace(_, _, _)
replace(s, old, new) ==
    IF Len(s) < Len(old) \/ Len(old) = 0 THEN s
    ELSE IF startswith(s, old)
         THEN new \o replace(SubSeq(s, Len(old) + 1, Len(s)), old, new)
         ELSE <<s[1]>> \o replace(Tail(s), old, new)

RECURSIVE join(_, _)
join(sep, parts) ==
    IF parts = <<>> THEN <<>>
    ELSE IF Len(parts) = 1 THEN parts[1]
    ELSE parts[1] \o sep \o join(sep, Tail(parts))

\* Python truthiness of a str-or-None value
Falsy(v) == v = None \/ v = <<>>

-----------------------------------------------------------------------------
(* Static configuration *)

UK_Startups == <<"U","K"," ","-"," ","S","t","a","r","t","u","p","s">>

UK_Top == <<"U","K"," ","-"," ","T","o","p"," ","P","r","i","c","e","d"," ","C","o","m","p","a","n","i","e","s">>

USA_Startups == <<"U","S","A"," ","-"," ","S","t","a","r","t","u","p","s">>

USA_Top == <<"U","S","A"," ","-"," ","T","o","p"," ","P","r","i","c","e","d"," ","C","o","m","p","a","n","i","e","s">>

India_Startups == <<"I","n","d","i","a"," ","-"," ","S","t","a","r","t","u","p","s">>

India_Top == <<"I","n","d","i","a"," ","-"," ","T","o","p"," ","P","r","i","c","e","d"," ","C","o","m","p","a","n","i","e","s">>

RegionKeys == {UK_Startups, UK_Top, USA_Startups, USA_Top, India_Startups, India_Top}

REGION_MAP ==
    [k \in RegionKeys |->
        CASE k = UK_Startups ->
               [query |-> <<"U","K"," ","s","t","a","r","t","u","p"," ","c","o","m","p","a","n","y"," ","h","e","a","d","q","u","a","r","t","e","r","s"," ","c","o","n","t","a","c","t">>, gl |-> <<"u","k">>,
                signals |-> << <<"s","t","a","r","t","u","p">>, <<"l","i","m","i","t","e","d">>, <<"l","t","d">>, <<"v","e","n","t","u","r","e","s">> >>,
                class |-> <<"S","t","a","r","t","u","p">>]
          [] k = UK_Top ->
               [query |-> <<"F","T","S","E"," ","1","0","0"," ","p","l","c"," ","h","e","a","d","q","u","a","r","t","e","r","s"," ","c","o","n","t","a","c","t">>, gl |-> <<"u","k">>,
                signals |-> << <<"p","l","c">>, <<"F","T","S","E">> >>,
                class |-> <<"L","i","s","t","e","d"," ","E","n","t","e","r","p","r","i","s","e">>]
          [] k = USA_Startups ->
               [query |-> <<"U","S"," ","s","t","a","r","t","u","p"," ","c","o","m","p","a","n","y"," ","h","e","a","d","q","u","a","r","t","e","r","s"," ","c","o","n","t","a","c","t">>, gl |-> <<"u","s">>,
                signals |-> << <<"s","t","a","r","t","u","p">>, <<"i","n","c">>, <<"v","e","n","t","u","r","e","s">> >>,
                class |-> <<"S","t","a","r","t","u","p">>]
          [] k = USA_Top ->
               [query |-> <<"S","&","P"," ","5","0","0"," ","c","o","m","p","a","n","y"," ","h","e","a","d","q","u","a","r","t","e","r","s"," ","c","o","n","t","a","c","t">>, gl |-> <<"u","s">>,
                signals |-> << <<"N","Y","S","E">>, <<"N","A","S","D","A","Q">>, <<"C","o","r","p">> >>,
                class |-> <<"L","i","s","t","e","d"," ","E","n","t","e","r","p","r","i","s","e">>]
          [] k = India_Startups ->
               [query |-> <<"I","n","d","i","a","n"," ","s","t","a","r","t","u","p"," ","p","r","i","v","a","t","e"," ","l","i","m","i","t","e","d"," ","c","o","m","p","a","n","y"," ","c","o","n","t","a","c","t">>, gl |-> <<"i","n">>,
                signals |-> << <<"s","t","a","r","t","u","p">>, <<"p","v","t">>, <<"p","r","i","v","a","t","e">> >>,
                class |-> <<"S","t","a","r","t","u","p">>]
          [] k = India_Top ->
               [query |-> <<"N","I","F","T","Y"," ","5","0"," ","l","i","s","t","e","d"," ","c","o","m","p","a","n","y"," ","c","o","r","p","o","r","a","t","e"," ","o","f","f","i","c","e"," ","c","o","n","t","a","c","t">>, gl |-> <<"i","n">>,
                signals |-> << <<"l","i","m","i","t","e","d">>, <<"l","t","d">>, <<"N","S","E">>, <<"B","S","E">> >>,
                class |-> <<"L","i","s","t","e","d"," ","E","n","t","e","r","p","r","i","s","e">>] ]

Hiring == <<"H","i","r","i","n","g">>

CustomerSupport == <<"C","u","s","t","o","m","e","r"," ","S","u","p","p","o","r","t">>

Sourcing == <<"S","o","u","r","c","i","n","g">>

ServiceKeys == {Hiring, CustomerSupport, Sourcing}

ROLES_BY_SERVICE ==
    [k \in ServiceKeys |->
        CASE k = Hiring ->
               << <<"H","R"," ","M","a","n","a","g","e","r">>, <<"H","e","a","d"," ","o","f"," ","T","a","l","e","n","t">>, <<"C","h","i","e","f"," ","P","e","o","p","l","e"," ","O","f","f","i","c","e","r">> >>
          [] k = CustomerSupport ->
               << <<"H","e","a","d"," ","o","f"," ","O","p","e","r","a","t","i","o","n","s">>, <<"S","u","p","p","o","r","t"," ","D","i","r","e","c","t","o","r">> >>
          [] k = Sourcing ->
               << <<"P","r","o","c","u","r","e","m","e","n","t"," ","H","e","a","d">>, <<"V","P"," ","P","r","o","c","u","r","e","m","e","n","t">> >> ]

\* sum(ROLES_BY_SERVICE.values(), [])
AllRoles == ROLES_BY_SERVICE[Hiring] \o ROLES_BY_SERVICE[CustomerSupport] \o ROLES_BY_SERVICE[Sourcing]

RealMode == "Real Google Search"

SimulationMode == "Simulation (Test UI)"

\* st.slider("Lead Count", 5, 10, 5)
SliderMin == 5

SliderMax == 10

-----------------------------------------------------------------------------
(* Utilities *)

VisitWebsite == <<"V","i","s","i","t"," ","W","e","b","s","i","t","e">>

\* re.sub(r"[^\d+]", "", phone)
stripNonPhone(phone) == SelectSeq(phone, LAMBDA c : c \in Digits \/ c = "+")

normalize_phone(phone) ==
    LET p == stripNonPhone(phone)
    IN  IF Len(p) >= 8 THEN p ELSE VisitWebsite

company_matches_target(company_name, signals) ==
    LET name == lower(company_name)
    IN  \E k \in 1..Len(signals) : Contains(name, lower(signals[k]))

\* the character class [\d \-]
PhoneClass(c) == c \in Digits \/ c = " " \/ c = "-"

\* how many consecutive characters of the class start at position i
ClassRun(s, i) ==
    LET stops == {k \in i..Len(s) : ~PhoneClass(s[k])}
    IN  IF stops = {} THEN Len(s) - i + 1 ELSE MinOf(stops) - i

\* length of the match of \+?\d[\d \-]{8,15} that starts at position i, 0 if none
MatchLenAt(s, i) ==
    LET d == IF s[i] = "+" THEN i + 1 ELSE i
    IN  IF d <= Len(s) /\ s[d] \in Digits /\ ClassRun(s, d + 1) >= 8
        THEN (d - i) + 1 + (IF ClassRun(s, d + 1) > 15 THEN 15 ELSE ClassRun(s, d + 1))
        ELSE 0

RECURSIVE findallFrom(_, _)
findallFrom(s, i) ==
    IF i > Len(s) THEN <<>>
    ELSE IF MatchLenAt(s, i) > 0
         THEN <<SubSeq(s, i, i + MatchLenAt(s, i) - 1)>> \o findallFrom(s, i + MatchLenAt(s, i))
         ELSE findallFrom(s, i + 1)

\* re.findall(r'(\+?\d[\d \-]{8,15})', line)
findall_phones(line) == findallFrom(line, 1)

-----------------------------------------------------------------------------
(* Bounds and the inputs of a run *)

\* longest "items" list of a search response (the API is asked for num = 10)
MaxItems == 8

\* most lines of an LLM reply
MaxRows == 2

\* largest slider position tried (the slider goes up to SliderMax)
CountCap == 6

\* outcomes of the random module tried per call site
NumSeeds == 2

RandomSeeds == 0..(NumSeeds - 1)

\* the selectbox positions tried: one Startup and one Listed Enterprise profile
RegionInputs == {UK_Startups, USA_Top}

Hit(t, s, l) == [title |-> t, snippet |-> s, link |-> l]

\* search hits the Custom Search API may return; an absent "snippet" reads as ''
HitCatalogue ==
    << Hit(<<"A","c","m","e"," ","L","t","d">>, <<"C","a","l","l"," ","+","4","4"," ","2","0"," ","7","9","4","6"," ","0","9","5","8"," ","n","o","w">>, <<"h","t","t","p","s",":","/","/","a","c","m","e",".","c","o",".","u","k","/","a">>),
       Hit(<<"B","e","t","a"," ","L","t","d">>, <<"T","e","l"," ","1","2","3","4","5","6","7","8">>, <<"h","t","t","p","s",":","/","/","l","i","n","k","e","d","i","n",".","c","o","m","/","c","/","b">>),
       Hit(<<"A","c","m","e"," ","L","t","d">>, <<>>, <<"h","t","t","p","s",":","/","/","a","c","m","e",".","c","o",".","u","k","/","c">>),
       Hit(<<"T","e","c","h"," ","B","l","o","g">>, <<"n","o"," ","p","h","o","n","e">>, <<"h","t","t","p","s",":","/","/","b","l","o","g",".","i","o","/","p">>),
       Hit(<<"G","a","m","a"," ","C","o","r","p"," ","L","t","d">>, <<"1","2","3","4","5","6","7","8","9","0","1","2","3","4","5","6","7","8","9","0">>, <<"h","t","t","p","s",":","/","/","g","a","m","a",".","c","o","m">>),
       Hit(<<"D","e","l","t","a"," ","L","t","d">>, <<"+","1"," ","2","3","4","5","6","7","-"," ","x">>, <<"h","t","t","p","s",":","/","/","d","e","l","t","a",".","u","k">>),
       Hit(<<"E","t","a"," ","L","t","d">>, <<"1","2","-","3","4"," ","n","o","w"," ","0","2","0"," ","7","9","4","6"," ","0","9","5","8">>, <<"h","t","t","p","s",":","/","/","e","t","a",".","u","k">>),
       Hit(<<"Z","e","t","a"," ","I","n","c"," ","L","t","d">>, <<"r","i","n","g"," ","1","2","3","4","5","6","7","8"," ","x">>, <<"h","t","t","p","s",":","/","/","z","e","t","a",".","u","k">>),
       Hit(<<"A","P","I","_","E","R","R","O","R"," ","L","t","d">>, <<"d","o","c","s">>, <<"h","t","t","p","s",":","/","/","e","r","r",".","u","k">>) >>

\* the contiguous slices of a catalogue, the empty one included
Windows(cat, maxLen) ==
    {SubSeq(cat, p[1], p[2]) :
        p \in {q \in (1..Len(cat)) \X (0..Len(cat)) :
                  q[2] >= q[1] - 1 /\ q[2] - q[1] < maxLen}}

ApiData(k, m, its) == [kind |-> k, message |-> m, items |-> its]

\* what requests.get(...).json() does: raises, or yields a dict with "error",
\* without "items", or with an "items" list
ApiResponses ==
    {ApiData("exception", <<"t","i","m","e","d"," ","o","u","t">>, <<>>),
     ApiData("error", <<"q","u","o","t","a">>, <<>>),
     ApiData("noitems", <<>>, <<>>)}
    \cup {ApiData("items", <<>>, w) : w \in Windows(HitCatalogue, MaxItems)}

\* lines the model may answer with
LlmRowCatalogue ==
    << <<"A","c","m","e"," ","L","t","d"," ","|"," ","+","4","4"," ","2","0"," ","7","9","4","6"," ","0","9","5","8"," ","|"," ","H","R"," ","M","a","n","a","g","e","r"," ","|"," ","h","t","t","p","s",":","/","/","a","c","m","e",".","c","o",".","u","k","/","a">>,
       <<"B","e","t","a"," ","L","t","d"," ","|"," ","V","i","s","i","t"," ","W","e","b","s","i","t","e"," ","|"," ","H","e","a","d"," ","o","f"," ","T","a","l","e","n","t">>,
       <<"S","o","r","r","y",","," ","n","o"," ","c","o","m","p","a","n","i","e","s"," ","f","o","u","n","d",".">>,
       <<"T","e","c","h"," ","B","l","o","g"," ","|"," ","1","2","3","4","5","6","7","8"," ","|"," ","E","d","i","t","o","r"," ","|"," ","h","t","t","p","s",":","/","/","b","l","o","g",".","i","o","/","p">>,
       <<"D","e","l","t","a"," ","L","t","d"," ","|"," ","+","1","2","3","4","5","6","7"," ","|"," ","H","R"," ","M","a","n","a","g","e","r"," ","|"," ","h","t","t","p","s",":","/","/","l","i","n","k","e","d","i","n",".","c","o","m","/","c","/","d">>,
       <<"A","c","m","e"," ","L","t","d"," ","|"," ","+","+","+","+","+","+","+","+"," ","|"," ","H","R"," ","M","a","n","a","g","e","r"," ","|"," ","h","t","t","p","s",":","/","/","a","c","m","e",".","c","o",".","u","k","/","c">> >>

LlmOutcome(k, t) == [kind |-> k, text |-> t]

\* model.generate_content(prompt) / response.text: raises, or yields text
LlmOutcomes ==
    {LlmOutcome("raise", <<>>)}
    \cup {LlmOutcome("text", join(<<"\n">>, w)) : w \in Windows(LlmRowCatalogue, MaxRows)}

NoApiData == ApiData("none", <<>>, <<>>)

NoLlm == LlmOutcome("none", <<>>)

-----------------------------------------------------------------------------
(* get_simulation_data *)

SimNumbers == << <<"1","0","0">>, <<"5","5","5">>, <<"9","9","9">> >>

Pick(choices, seed, i) == choices[((seed + i) % Len(choices)) + 1]

Lead(company, phone, role, link, cfg, leadType) ==
    [Company |-> company, Phone |-> phone, DecisionMaker |-> role,
     SourceLink |-> link, Location |-> upper(cfg.gl), CompanyClass |-> cfg.class,
     LeadType |-> leadType]

get_simulation_data(key, n, seed) ==
    [i \in 1..n |->
        Lead(<<"S","i","m","u","l","a","t","e","d"," ">> \o firstWord(key) \o <<" ","C","o","r","p"," ">> \o Pick(SimNumbers, seed, i),
             <<"+","1","-","8","0","0","-","5","5","5","-","1","2","3","4">>, Pick(AllRoles, seed, i), <<"h","t","t","p","s",":","/","/","w","w","w",".","e","x","a","m","p","l","e",".","c","o","m">>,
             REGION_MAP[key], <<"S","I","M","U","L","A","T","E","D">>)]

-----------------------------------------------------------------------------
(* search_google *)

ApiErrorMarker == <<"A","P","I","_","E","R","R","O","R">>

HitText(item) ==
    <<"S","o","u","r","c","e",":"," ">> \o item.title \o <<"\n">> \o
    <<"S","n","i","p","p","e","t",":"," ">> \o item.snippet \o <<"\n">> \o
    <<"U","R","L",":"," ">> \o item.link

search_google(data) ==
    IF data.kind = "exception" THEN <<"A","P","I","_","E","R","R","O","R",":"," ">> \o data.message
    ELSE IF data.kind = "error" THEN <<"A","P","I","_","E","R","R","O","R",":"," ">> \o data.message
    ELSE IF data.kind = "noitems" THEN None
    ELSE join(<<"\n">>, [i \in 1..Len(data.items) |-> HitText(data.items[i])])

-----------------------------------------------------------------------------
(* extract_leads *)

PhoneVerified == <<"P","h","o","n","e"," ","V","e","r","i","f","i","e","d">>

LinkOnly == <<"L","i","n","k"," ","O","n","l","y">>

NotAvailable == <<"N","/","A">>

\* mutant: the label no longer follows the phone
LeadTypeAlwaysVerified(phone) == PhoneVerified

LeadTypeOf(phone) == IF phone # VisitWebsite THEN PhoneVerified ELSE LinkOnly

\* the record one line of the reply contributes, if any
AIRow(line, cfg) ==
    LET raw_parts == split(line, "|")
        parts     == [i \in 1..Len(raw_parts) |-> strip(raw_parts[i])]
    IN  IF Len(parts) >= 3 /\ company_matches_target(parts[1], cfg.signals)
        THEN << Lead(parts[1], normalize_phone(parts[2]), parts[3],
                     IF Len(parts) > 3 THEN parts[4] ELSE NotAvailable,
                     cfg, LeadTypeOf(normalize_phone(parts[2]))) >>
        ELSE <<>>

RECURSIVE AIRows(_, _)
AIRows(lines, cfg) ==
    IF lines = <<>> THEN <<>> ELSE AIRow(lines[1], cfg) \o AIRows(Tail(lines), cfg)

\* the try block: the reply raises before any row is appended, and the
\* except clause swallows the exception
TryAIPass(outcome, cfg) ==
    IF outcome.kind = "raise"
    THEN [leads |-> <<>>, propagated |-> FALSE]
    ELSE [leads |-> AIRows(split(strip(outcome.text), "\n"), cfg), propagated |-> FALSE]

SourceTag == <<"S","o","u","r","c","e",":">>

UrlTag == <<"U","R","L",":">>

SnippetTag == <<"S","n","i","p","p","e","t",":">>

\* the record a "Snippet:" line contributes
SnippetLead(line, current_company, current_link, cfg, role) ==
    LET phones == findall_phones(line)
        phone  == IF phones # <<>> THEN normalize_phone(phones[1]) ELSE VisitWebsite
    IN  Lead(current_company, phone, role, current_link, cfg, LeadTypeOf(phone))

RECURSIVE FallbackLoop(_, _, _, _, _, _, _)
FallbackLoop(lines, current_company, current_link, acc, cfg, roles, seed) ==
    IF lines = <<>> THEN acc
    ELSE LET line == lines[1]
             rest == Tail(lines)
         IN  IF startswith(line, SourceTag)
             THEN FallbackLoop(rest, strip(replace(line, SourceTag, <<>>)), current_link,
                               acc, cfg, roles, seed)
             ELSE IF startswith(line, UrlTag)
             THEN FallbackLoop(rest, current_company, strip(replace(line, UrlTag, <<>>)),
                               acc, cfg, roles, seed)
             ELSE IF Contains(line, SnippetTag)
                     /\ company_matches_target(current_company, cfg.signals)
             THEN FallbackLoop(rest, current_company, current_link,
                               Append(acc, SnippetLead(line, current_company, current_link,
                                                       cfg, Pick(roles, seed, Len(acc)))),
                               cfg, roles, seed)
             ELSE FallbackLoop(rest, current_company, current_link, acc, cfg, roles, seed)

\* the fallback block appends to the list the AI pass left
RegexFallbackLeads(ctx, found, cfg, roles, seed) ==
    FallbackLoop(split(ctx, "\n"), <<"U","n","k","n","o","w","n"," ","C","o","m","p","a","n","y">>, NotAvailable, found, cfg, roles, seed)

\* mutant: the fallback runs whatever the AI pass found
FallbackAlways(found) == TRUE

\* if not leads
FallbackNeeded(found) == found = <<>>

\* df.drop_duplicates(subset=["Company"]): the first row of each company stays
drop_duplicates(rows) ==
    LET keep == {i \in 1..Len(rows) : \A j \in 1..(i - 1) : rows[j].Company # rows[i].Company}
        F[i \in 0..Len(rows)] ==
            IF i = 0 THEN <<>>
            ELSE IF i \in keep THEN Append(F[i - 1], rows[i]) ELSE F[i - 1]
    IN  F[Len(rows)]

\* mutant: the cut keeps one row too many
head_off_by_one(rows, n) == SubSeq(rows, 1, IF Len(rows) < n + 1 THEN Len(rows) ELSE n + 1)

head(rows, n) == SubSeq(rows, 1, IF Len(rows) < n THEN Len(rows) ELSE n)

ExtractReturn(rows, n) ==
    IF rows # <<>> THEN head(drop_duplicates(rows), n) ELSE <<>>

-----------------------------------------------------------------------------
(* The sidebar and the widgets: the state when the button is pressed *)

\* st.secrets.get(...) (None reads as "") and the two text inputs
SecretValues == {"", "key"}

TypedValues == {"", "key"}

Unset == "<unset>"

\* API_KEY and CX_ID as the sidebar binds them in real-search mode
SidebarCredentials(sec_api, sec_cx, in_api, in_cx) ==
    IF sec_api # "" /\ sec_cx # ""
    THEN [API_KEY |-> sec_api, CX_ID |-> sec_cx]
    ELSE [API_KEY |-> in_api, CX_ID |-> in_cx]

UiMsg(k, t) == [kind |-> k, text |-> t]

Init ==
    /\ mode \in {RealMode, SimulationMode}
    /\ \E sec_api \in SecretValues, sec_cx \in SecretValues,
          in_api \in TypedValues, in_cx \in TypedValues :
          IF mode = RealMode
          THEN /\ API_KEY = SidebarCredentials(sec_api, sec_cx, in_api, in_cx).API_KEY
               /\ CX_ID = SidebarCredentials(sec_api, sec_cx, in_api, in_cx).CX_ID
          ELSE /\ API_KEY = Unset
               /\ CX_ID = Unset
    /\ region_key \in RegionInputs
    /\ service \in ServiceKeys
    /\ count \in SliderMin..(IF CountCap < SliderMax THEN CountCap ELSE SliderMax)
    /\ pc = "button"
    /\ apiData = NoApiData
    /\ context = None
    /\ llm = NoLlm
    /\ aiLeads = <<>>
    /\ leads = <<>>
    /\ passes = <<>>
    /\ calls = <<>>
    /\ ui = <<>>
    /\ df = <<>>

-----------------------------------------------------------------------------
(* The action block of the script, one step per statement group *)

\* mutant: "and" where the code has "or"
CredentialsBothMissing(key, cx) == key = "" /\ cx = ""

\* if not API_KEY or not CX_ID
CredentialsMissing(key, cx) == key = "" \/ cx = ""

\* if not context or "API_ERROR" in str(context)
ContextRejected(ctx) == Falsy(ctx) \/ Contains(ctx, ApiErrorMarker)

\* mode == Simulation: get_simulation_data, then on to the rendering
Simulation ==
    /\ pc = "button"
    /\ mode = SimulationMode
    /\ \E seed \in RandomSeeds :
          /\ leads' = get_simulation_data(region_key, count, seed)
          /\ df' = get_simulation_data(region_key, count, seed)
    /\ pc' = "render"
    /\ UNCHANGED <<mode, API_KEY, CX_ID, region_key, service, count,
                   apiData, context, llm, aiLeads, passes, calls, ui>>

\* the precondition check of the real-search branch
CredentialCheck ==
    /\ pc = "button"
    /\ mode = RealMode
    /\ IF CredentialsMissing(API_KEY, CX_ID)
       THEN /\ ui' = Append(ui, UiMsg("error", <<"M","i","s","s","i","n","g"," ","A","P","I"," ","c","r","e","d","e","n","t","i","a","l","s",".">>))
            /\ pc' = "stopped"
       ELSE /\ ui' = ui
            /\ pc' = "search"
    /\ UNCHANGED <<mode, API_KEY, CX_ID, region_key, service, count,
                   apiData, context, llm, aiLeads, leads, passes, calls, df>>

\* context = search_google(query, API_KEY, CX_ID, cfg["gl"])
SearchGoogle ==
    /\ pc = "search"
    /\ \E data \in ApiResponses :
          /\ apiData' = data
          /\ context' = search_google(data)
    /\ calls' = Append(calls, "requests.get")
    /\ pc' = "check"
    /\ UNCHANGED <<mode, API_KEY, CX_ID, region_key, service, count,
                   llm, aiLeads, leads, passes, ui, df>>

\* st.error(context or "No results found."); st.stop()
CheckContext ==
    /\ pc = "check"
    /\ IF ContextRejected(context)
       THEN /\ ui' = Append(ui, UiMsg("error", IF Falsy(context) THEN <<"N","o"," ","r","e","s","u","l","t","s"," ","f","o","u","n","d",".">>
                                                ELSE context))
            /\ pc' = "stopped"
       ELSE /\ ui' = ui
            /\ pc' = "ai_pass"
    /\ UNCHANGED <<mode, API_KEY, CX_ID, region_key, service, count,
                   apiData, context, llm, aiLeads, leads, passes, calls, df>>

\* extract_leads: the AI pass
AIPass ==
    /\ pc = "ai_pass"
    /\ \E outcome \in LlmOutcomes :
          /\ llm' = outcome
          /\ leads' = TryAIPass(outcome, REGION_MAP[region_key]).leads
          /\ aiLeads' = TryAIPass(outcome, REGION_MAP[region_key]).leads
          /\ pc' = IF TryAIPass(outcome, REGION_MAP[region_key]).propagated THEN "exception"
                   ELSE IF FallbackNeeded(TryAIPass(outcome, REGION_MAP[region_key]).leads)
                        THEN "fallback" ELSE "return"
    /\ passes' = Append(passes, "ai")
    /\ calls' = Append(calls, "generate_content")
    /\ UNCHANGED <<mode, API_KEY, CX_ID, region_key, service, count,
                   apiData, context, ui, df>>

\* extract_leads: if not leads, the regex fallback
RegexFallback ==
    /\ pc = "fallback"
    /\ \E seed \in RandomSeeds :
          leads' = RegexFallbackLeads(context, leads, REGION_MAP[region_key],
                                      ROLES_BY_SERVICE[service], seed)
    /\ passes' = Append(passes, "regex")
    /\ pc' = "return"
    /\ UNCHANGED <<mode, API_KEY, CX_ID, region_key, service, count,
                   apiData, context, llm, aiLeads, calls, ui, df>>

\* extract_leads: drop_duplicates, head(count), and df = pd.DataFrame(leads)
Return ==
    /\ pc = "return"
    /\ df' = ExtractReturn(leads, count)
    /\ pc' = "render"
    /\ UNCHANGED <<mode, API_KEY, CX_ID, region_key, service, count,
                   apiData, context, llm, aiLeads, leads, passes, calls, ui>>

\* if not df.empty: table and download button, else the warning
Render ==
    /\ pc = "render"
    /\ ui' = Append(ui, IF df # <<>>
                        THEN UiMsg("dataframe", <<>>)
                        ELSE UiMsg("warning",
                                   <<"N","o"," ","q","u","a","l","i","f","i","e","d"," ","c","o","m","p","a","n","i","e","s"," ","m","a","t","c","h","e","d"," ","t","h","e"," ","t","a","r","g","e","t"," ","c","r","i","t","e","r","i","a",".">>))
    /\ pc' = "done"
    /\ UNCHANGED <<mode, API_KEY, CX_ID, region_key, service, count,
                   apiData, context, llm, aiLeads, leads, passes, calls, df>>

Next ==
    \/ Simulation
    \/ CredentialCheck
    \/ SearchGoogle
    \/ CheckContext
    \/ AIPass
    \/ RegexFallback
    \/ Return
    \/ Render

Spec == Init /\ [][Next]_vars

-----------------------------------------------------------------------------
(* Properties *)

\* the records extract_leads has returned to the action block
Returned == IF mode = RealMode /\ pc \in {"render", "done"} THEN df ELSE <<>>

\* extract_leads is about to return after the regex fallback ran
AfterFallback == mode = RealMode /\ pc = "return" /\ passes = <<"ai", "regex">>

\* an optional single leading '+', then at least 8 digits and nothing else
WellFormedPhone(p) ==
    LET body == IF p # <<>> /\ p[1] = "+" THEN Tail(p) ELSE p
    IN  Len(body) >= 8 /\ \A i \in 1..Len(body) : body[i] \in Digits

\* C1: every returned record's Phone is "Visit Website" or an optional single
\* leading '+' followed by at least 8 digits
C1_PhoneShape ==
    \A i \in 1..Len(Returned) :
        Returned[i].Phone = VisitWebsite \/ WellFormedPhone(Returned[i].Phone)

\* C2: extract_leads returns at most count records, no two of them with the
\* same Company (compared case-sensitively)
C2_AtMostCountNoDuplicates ==
    /\ Len(Returned) <= count
    /\ \A i \in 1..Len(Returned) : \A j \in 1..Len(Returned) :
          i # j => Returned[i].Company # Returned[j].Company

\* more distinct candidates than count survived, one company twice, and the
\* returned list was cut to count
C2_Witness ==
    /\ mode = RealMode
    /\ pc = "render"
    /\ Cardinality({leads[i].Company : i \in 1..Len(leads)}) > count
    /\ Cardinality({leads[i].Company : i \in 1..Len(leads)}) < Len(leads)
    /\ Len(df) = count

BlockedDomains == { <<"l","i","n","k","e","d","i","n",".","c","o","m">> }

\* the host of a URL: what stands between "://" and the next "/"
UrlHost(url) ==
    LET starts == {i \in 1..(Len(url) - 2) : SubSeq(url, i, i + 2) = <<":","/","/">>}
        from   == IF starts = {} THEN 1 ELSE MinOf(starts) + 3
        ends   == {i \in from..Len(url) : url[i] = "/"}
    IN  SubSeq(url, from, IF ends = {} THEN Len(url) ELSE MinOf(ends) - 1)

HostBlocked(url) == \E b \in BlockedDomains : Contains(UrlHost(url), b)

\* C3: no returned record has a Source Link whose host contains a blocked
\* domain
C3_NoBlockedHost ==
    \A i \in 1..Len(Returned) : ~HostBlocked(Returned[i].SourceLink)

\* C4: a search response without "items" and without "error" ends the run with
\* the "no leads" warning and never with an error message
C4_NoItemsIsNoLeads ==
    (apiData.kind = "noitems" /\ pc \in {"stopped", "done"})
        => /\ pc = "done"
           /\ df = <<>>
           /\ \A i \in 1..Len(ui) : ui[i].kind # "error"
           /\ \E i \in 1..Len(ui) : ui[i].kind = "warning"

\* C5: the passes run in the order AI then regex, the regex pass runs exactly
\* when the AI pass left no record (a raising LLM call included), the records
\* are those of one pass only, and no exception leaves extract_leads
C5_FallbackIffAIEmpty ==
    /\ pc # "exception"
    /\ pc = "fallback" => (passes = <<"ai">> /\ aiLeads = <<>>)
    /\ pc \in {"return", "render", "done"} /\ mode = RealMode =>
          /\ passes \in {<<"ai">>, <<"ai", "regex">>}
          /\ (passes = <<"ai", "regex">>) <=> (aiLeads = <<>>)
          /\ llm.kind = "raise" => passes = <<"ai", "regex">>
          /\ passes = <<"ai">> => leads = aiLeads
          /\ \A i \in 1..Len(df) : \E j \in 1..Len(leads) : df[i] = leads[j]

\* the LLM call raised, the regex pass then produced the records shown
C5_Witness ==
    /\ pc = "done"
    /\ llm.kind = "raise"
    /\ passes = <<"ai", "regex">>
    /\ df # <<>>

\* the hits of the response whose title passes the company filter
TargetHits ==
    {i \in 1..Len(apiData.items) :
        \E k \in 1..Len(REGION_MAP[region_key].signals) :
            Contains(lower(apiData.items[i].title),
                     lower(REGION_MAP[region_key].signals[k]))}

HasRecord(rows, company, phone) ==
    \E j \in 1..Len(rows) : rows[j].Company = company /\ rows[j].Phone = phone

\* C6: Lead Type is "Phone Verified" exactly when Phone is not the sentinel and
\* "Link Only" exactly when it is, and a hit without a phone is kept with the
\* sentinel
C6_LeadTypeMatchesPhone ==
    /\ mode = RealMode =>
          \A i \in 1..Len(leads) :
              /\ (leads[i].LeadType = PhoneVerified) <=> (leads[i].Phone # VisitWebsite)
              /\ (leads[i].LeadType = LinkOnly) <=> (leads[i].Phone = VisitWebsite)
    /\ AfterFallback =>
          \A i \in TargetHits :
              (\A k \in 1..Len(apiData.items[i].snippet) :
                    apiData.items[i].snippet[k] \notin Digits)
                 => HasRecord(leads, strip(apiData.items[i].title), VisitWebsite)

\* the fallback kept a hit without a phone next to one with a phone
C6_Witness ==
    /\ AfterFallback
    /\ \E i \in 1..Len(leads) : leads[i].Phone = VisitWebsite /\ leads[i].LeadType = LinkOnly
    /\ \E i \in 1..Len(leads) : leads[i].Phone # VisitWebsite /\ leads[i].LeadType = PhoneVerified
    /\ \E i \in TargetHits : apiData.items[i].snippet = <<>>

\* C7: with an empty API key or search-engine id a real-mode run stops with
\* "Missing API credentials." and issues no call; every call is preceded by
\* the credential check
C7_CredentialsBeforeCalls ==
    /\ (mode = RealMode /\ (API_KEY = "" \/ CX_ID = "") /\ pc # "button")
          => /\ pc = "stopped"
             /\ ui = <<UiMsg("error", <<"M","i","s","s","i","n","g"," ","A","P","I"," ","c","r","e","d","e","n","t","i","a","l","s",".">>)>>
             /\ calls = <<>>
    /\ calls # <<>> => (mode = RealMode /\ API_KEY # "" /\ CX_ID # "")

\* only the search-engine id was missing, and the run stopped without a call
C7_Witness ==
    /\ mode = RealMode
    /\ API_KEY # ""
    /\ CX_ID = ""
    /\ pc = "stopped"
    /\ calls = <<>>

\* the first run of digits, spaces and dashes (after an optional '+') that
\* holds at least 8 digits, reduced to its '+' and digits; <<>> if there is none
RECURSIVE DigitRunFrom(_, _)
DigitRunFrom(s, i) ==
    IF i > Len(s) THEN <<>>
    ELSE LET d == IF s[i] = "+" THEN i + 1 ELSE i
         IN  IF d <= Len(s) /\ s[d] \in Digits
             THEN LET stops == {k \in d..Len(s) : s[k] \notin Digits \cup {" ", "-"}}
                      last  == IF stops = {} THEN Len(s) ELSE MinOf(stops) - 1
                      run   == SelectSeq(SubSeq(s, i, last), LAMBDA c : c \in Digits \cup {"+"})
                  IN  IF Len(SelectSeq(run, LAMBDA c : c \in Digits)) >= 8 THEN run
                      ELSE DigitRunFrom(s, last + 1)
             ELSE DigitRunFrom(s, i + 1)

\* C8: for a snippet holding a run of at least 8 digits the regex fallback's
\* phone is exactly the digits of that run, with its '+'
C8_PhoneEqualsDigitRun ==
    AfterFallback =>
        \A i \in TargetHits :
            DigitRunFrom(apiData.items[i].snippet, 1) # <<>>
               => HasRecord(leads, strip(apiData.items[i].title),
                            DigitRunFrom(apiData.items[i].snippet, 1))

\* C9: every record of the regex fallback carries the URL of the hit that
\* supplied its Company
C9_LinkOfSameHit ==
    AfterFallback =>
        \A j \in 1..Len(leads) :
            \E i \in 1..Len(apiData.items) :
                /\ leads[j].Company = strip(apiData.items[i].title)
                /\ leads[j].SourceLink = strip(apiData.items[i].link)

\* C10: the run is stopped after the search step only if the search call
\* failed, returned an error payload or returned no items
C10_AbortOnlyOnSearchFailure ==
    (pc = "stopped" /\ calls # <<>>) =>
        \/ apiData.kind \in {"exception", "error", "noitems"}
        \/ apiData.items = <<>>

=============================================================================
